---- MODULE Spec2Model ----
(***************************************************************************)
(* The noexcept benchmark driver: the trial loop of every test case, the   *)
(* test_result accumulator and the verdict it prints.                      *)
(*                                                                         *)
(* The repository holds two revisions of the driver; both are modelled and *)
(* the variable `program` says which one runs:                             *)
(*   "main_cpp"  src/noexcept_benchmark_main.cpp  (plain struct            *)
(*               test_result, print_conclusion called after the loop)      *)
(*   "part_000"  src/unnamed/part_000  (class test_result<N>, header in    *)
(*               the constructor, summary and verdict in the destructor)   *)
(***************************************************************************)
EXTENDS Integers, FiniteSets, Sequences, TLC

(***************************************************************************)
(* IEEE-754 binary64 values.                                               *)
(*                                                                         *)
(* A value is a record [cls, n, d, e]:                                     *)
(*   cls = "fin"   the double nearest to (n / d) * 2^e, in canonical form: *)
(*                 n and d odd and coprime, d > 0; zero is n=0, d=1, e=0.  *)
(*                 With d = 1 the value is exact (n fits the 53-bit        *)
(*                 significand for every n the model builds).              *)
(*   cls = "inf"   +infinity                                               *)
(*   cls = "none"  an object that holds no value yet                       *)
(***************************************************************************)

\* numeric_limits<double>::denorm_min() is 2^DenormMinExp
DenormMinExp == -1074

\* every finite double is below 2^OverflowExp
OverflowExp == 1024

\* largest difference of exponents that is aligned with machine integers
AlignLimit == 20

RECURSIVE GCD(_, _)
GCD(a, b) == IF b = 0 THEN a ELSE GCD(b, a % b)

Abs(a) == IF a < 0 THEN -a ELSE a

RECURSIVE BitLen(_)
\* number of significant bits of a natural number
BitLen(a) == IF a = 0 THEN 0 ELSE 1 + BitLen(a \div 2)

RECURSIVE TwoAdic(_)
\* number of trailing zero bits of a positive number
TwoAdic(a) == IF a % 2 = 1 THEN 0 ELSE 1 + TwoAdic(a \div 2)

PosInf == [cls |-> "inf", n |-> 1, d |-> 1, e |-> 0]
NoValue == [cls |-> "none", n |-> 0, d |-> 1, e |-> 0]
Zero == [cls |-> "fin", n |-> 0, d |-> 1, e |-> 0]

\* canonical form of (n / d) * 2^e, d > 0
Canon(n, d, e) ==
    IF n = 0 THEN Zero
    ELSE LET g == GCD(Abs(n), d)
             n1 == n \div g
             d1 == d \div g
             tn == TwoAdic(Abs(n1))
             td == TwoAdic(d1)
         IN [cls |-> "fin", n |-> n1 \div (2 ^ tn), d |-> d1 \div (2 ^ td),
             e |-> e + tn - td]

\* the double m * 2^e
Dbl(m, e) == Canon(m, 1, e)

IsFinite(a) == a.cls = "fin"

\* a > 0
IsPositive(a) == a.cls = "inf" \/ (a.cls = "fin" /\ a.n > 0)

\* a < b for non-negative finite values and +infinity (no operand is NaN).
\* Exponents further apart than AlignLimit are decided by the exponents alone,
\* which is exact while numerators and denominators stay below 2^(AlignLimit \div 2).
DLess(a, b) ==
    IF a.cls = "inf" THEN FALSE
    ELSE IF b.cls = "inf" THEN TRUE
    ELSE IF b.n = 0 THEN FALSE
    ELSE IF a.n = 0 THEN TRUE
    ELSE IF a.e + AlignLimit < b.e THEN TRUE
    ELSE IF b.e + AlignLimit < a.e THEN FALSE
    ELSE LET lo == IF a.e < b.e THEN a.e ELSE b.e
         IN a.n * b.d * (2 ^ (a.e - lo)) < b.n * a.d * (2 ^ (b.e - lo))

\* a + b for exact (d = 1) finite values whose exponents are at most AlignLimit
\* apart; the sum is exact because it fits the significand.
DAdd(a, b) ==
    IF a.n = 0 THEN b
    ELSE IF b.n = 0 THEN a
    ELSE LET lo == IF a.e < b.e THEN a.e ELSE b.e
         IN Canon(a.n * (2 ^ (a.e - lo)) + b.n * (2 ^ (b.e - lo)), 1, lo)

\* std::min(a, b): b when b < a, else a
DMin(a, b) == IF DLess(b, a) THEN b ELSE a

\* (n / d) * 2^e >= 2^k, for n, d > 0
AtLeastPow2(n, d, e, k) ==
    IF e - k >= 0
    THEN IF e - k >= BitLen(d) THEN TRUE ELSE n * (2 ^ (e - k)) >= d
    ELSE IF k - e >= BitLen(n) THEN FALSE ELSE n >= d * (2 ^ (k - e))

\* x / y in binary64 for exact finite x >= 0 and exact finite y > 0: the
\* quotient rounded to nearest, +infinity on overflow, zero when the quotient
\* is at most half of denorm_min.
DDiv(x, y) ==
    IF x.n = 0 THEN Zero
    ELSE LET q == Canon(x.n, y.n, x.e - y.e)
         IN IF AtLeastPow2(q.n, q.d, q.e, OverflowExp) THEN PosInf
            ELSE IF ~AtLeastPow2(q.n, q.d, q.e, DenormMinExp - 1)
                    \/ (q.n = 1 /\ q.d = 1 /\ q.e = DenormMinExp - 1) THEN Zero
            ELSE q

DenormMin == Dbl(1, DenormMinExp)

divide_by_positive(x, y) ==
    DDiv(x, IF IsPositive(y) THEN y ELSE DenormMin)


(***************************************************************************)
(* The driver.                                                             *)
(***************************************************************************)

\* trials per test case of part_000 (NOEXCEPT_BENCHMARK_NUMBER_OF_ITERATIONS)
number_of_iterations == 10

\* trials per test case of noexcept_benchmark_main.cpp
max_number_of_times == 4

\* the longest duration a measurement returns
MaxDuration == 2

Programs == {"main_cpp", "part_000"}

\* the test cases of main(), in the order of their blocks
TestCaseNames(p) ==
    IF p = "main_cpp"
    THEN <<"test_inline_func", "recursive_func", "exported_func(false) calls",
           "test_vector_reserve">>
    ELSE <<"inline function calls", "exported library function calls",
           "recursive function calls", "template recursion",
           "std::vector<my_string> reserve">>

NumCases(p) == Len(TestCaseNames(p))

\* the larger number of test cases of the two revisions
MaxCases == NumCases("part_000")

\* the bound of the trial loop
TrialLimit(p) == IF p = "main_cpp" THEN max_number_of_times ELSE number_of_iterations

\* what one measurement (test_inline_func, test_vector_reserve, profile_func_call)
\* can return, a non-negative double: zero, one, and a longer duration
Durations == {Dbl(0, 0), Dbl(1, 0), Dbl(MaxDuration, 0)}

VARIABLES
    program,        \* which revision of the driver runs
    pc,             \* position of main()
    tc,             \* index of the test-case block main() is in
    iteration,      \* numberOfTimes / iteration_number of the trial loop
    durations,      \* the pair of durations of the trial being taken
    returned,       \* what the two measurement calls of this trial returned
    result,         \* the test_result object of the current block
    header_count,   \* per test case: headers printed
    summary_count,  \* per test case: summaries (conclusions) printed
    summary,        \* the summary printed for the current test case
    update_calls,   \* per test case: calls of update_test_result
    measure_calls,  \* per test case: measurement calls per variant
    div_pc, div_x, div_y, div_r, \* a stand-alone call of divide_by_positive
    rec_pc,         \* a stand-alone call of recursive_func: where it is
    rec_fn,         \* which revision's recursive_func is called
    rec_variant,    \* the noexcept or the implicit one
    rec_N,          \* the depth it is called with
    rec_n,          \* number_of_func_calls of the innermost frame
    rec_depth,      \* frames alive
    rec_frames,     \* frames entered so far
    rec_constructed, \* dummy_class objects constructed so far
    rec_destroyed   \* dummy_class objects destroyed so far

vars == <<program, pc, tc, iteration, durations, returned, result, header_count,
          summary_count, summary, update_calls, measure_calls,
          div_pc, div_x, div_y, div_r,
          rec_pc, rec_fn, rec_variant, rec_N, rec_n, rec_depth, rec_frames,
          rec_constructed, rec_destroyed>>

recVars == <<rec_pc, rec_fn, rec_variant, rec_N, rec_n, rec_depth, rec_frames,
             rec_constructed, rec_destroyed>>

driverVars == <<program, pc, tc, iteration, durations, returned, result,
                header_count, summary_count, summary, update_calls, measure_calls>>

divVars == <<div_pc, div_x, div_y, div_r>>

\* struct test_result / class test_result<N>: the member initializers
InitialResult ==
    [number_of_times_noexcept_is_faster |-> 0,
     number_of_times_implicit_is_faster |-> 0,
     sum_of_durations_noexcept |-> Zero,
     sum_of_durations_implicit |-> Zero,
     shortest_duration_noexcept |-> PosInf,
     shortest_duration_implicit |-> PosInf]

\* no test_result object is alive
NoResult ==
    [number_of_times_noexcept_is_faster |-> 0,
     number_of_times_implicit_is_faster |-> 0,
     sum_of_durations_noexcept |-> NoValue,
     sum_of_durations_implicit |-> NoValue,
     shortest_duration_noexcept |-> NoValue,
     shortest_duration_implicit |-> NoValue]

\* durations_type durations; (no member holds a value yet)
NoDurations == [duration_noexcept |-> NoValue, duration_implicit |-> NoValue]

NoSummary ==
    [verdict |-> {},
     ratio_noexcept_implicit |-> NoValue,
     ratio_implicit_noexcept |-> NoValue]

\* update_test_result of noexcept_benchmark_main.cpp with the two counters
\* exchanged
update_test_result_main_cpp_swapped(r, d) ==
    [r EXCEPT
        !.sum_of_durations_noexcept = DAdd(@, d.duration_noexcept),
        !.sum_of_durations_implicit = DAdd(@, d.duration_implicit),
        !.number_of_times_implicit_is_faster =
            IF DLess(d.duration_noexcept, d.duration_implicit) THEN @ + 1 ELSE @,
        !.number_of_times_noexcept_is_faster =
            IF DLess(d.duration_implicit, d.duration_noexcept) THEN @ + 1 ELSE @]

\* update_test_result of noexcept_benchmark_main.cpp (durations.first is
\* duration_noexcept, durations.second is duration_implicit); the struct has no
\* shortest durations.  The unsigned counters never exceed the trial limit.
update_test_result_main_cpp(r, d) ==
    [r EXCEPT
        !.sum_of_durations_noexcept = DAdd(@, d.duration_noexcept),
        !.sum_of_durations_implicit = DAdd(@, d.duration_implicit),
        !.number_of_times_noexcept_is_faster =
            IF DLess(d.duration_noexcept, d.duration_implicit) THEN @ + 1 ELSE @,
        !.number_of_times_implicit_is_faster =
            IF DLess(d.duration_implicit, d.duration_noexcept) THEN @ + 1 ELSE @]

\* test_result<N>::update_test_result adding each duration to the other
\* variant's sum
update_test_result_crossed_sums(r, d) ==
    [r EXCEPT
        !.sum_of_durations_noexcept = DAdd(@, d.duration_implicit),
        !.sum_of_durations_implicit = DAdd(@, d.duration_noexcept),
        !.shortest_duration_noexcept = DMin(@, d.duration_noexcept),
        !.shortest_duration_implicit = DMin(@, d.duration_implicit),
        !.number_of_times_noexcept_is_faster =
            IF DLess(d.duration_noexcept, d.duration_implicit) THEN @ + 1 ELSE @,
        !.number_of_times_implicit_is_faster =
            IF DLess(d.duration_implicit, d.duration_noexcept) THEN @ + 1 ELSE @]

\* test_result<N>::update_test_result with std::max for std::min
update_test_result_max(r, d) ==
    [r EXCEPT
        !.sum_of_durations_noexcept = DAdd(@, d.duration_noexcept),
        !.sum_of_durations_implicit = DAdd(@, d.duration_implicit),
        !.shortest_duration_noexcept = IF DLess(@, d.duration_noexcept)
                                       THEN d.duration_noexcept ELSE @,
        !.shortest_duration_implicit = IF DLess(@, d.duration_implicit)
                                       THEN d.duration_implicit ELSE @,
        !.number_of_times_noexcept_is_faster =
            IF DLess(d.duration_noexcept, d.duration_implicit) THEN @ + 1 ELSE @,
        !.number_of_times_implicit_is_faster =
            IF DLess(d.duration_implicit, d.duration_noexcept) THEN @ + 1 ELSE @]

\* test_result<N>::update_test_result with <= for <: a tie counts for both
update_test_result_ties_count(r, d) ==
    [r EXCEPT
        !.sum_of_durations_noexcept = DAdd(@, d.duration_noexcept),
        !.sum_of_durations_implicit = DAdd(@, d.duration_implicit),
        !.shortest_duration_noexcept = DMin(@, d.duration_noexcept),
        !.shortest_duration_implicit = DMin(@, d.duration_implicit),
        !.number_of_times_noexcept_is_faster =
            IF ~DLess(d.duration_implicit, d.duration_noexcept) THEN @ + 1 ELSE @,
        !.number_of_times_implicit_is_faster =
            IF ~DLess(d.duration_noexcept, d.duration_implicit) THEN @ + 1 ELSE @]

\* test_result<N>::update_test_result of part_000
update_test_result(r, d) ==
    [r EXCEPT
        !.sum_of_durations_noexcept = DAdd(@, d.duration_noexcept),
        !.sum_of_durations_implicit = DAdd(@, d.duration_implicit),
        !.shortest_duration_noexcept = DMin(@, d.duration_noexcept),
        !.shortest_duration_implicit = DMin(@, d.duration_implicit),
        !.number_of_times_noexcept_is_faster =
            IF DLess(d.duration_noexcept, d.duration_implicit) THEN @ + 1 ELSE @,
        !.number_of_times_implicit_is_faster =
            IF DLess(d.duration_implicit, d.duration_noexcept) THEN @ + 1 ELSE @]

\* print_conclusion with the arguments of divide_by_positive exchanged
print_conclusion_swapped_ratio(r) ==
    IF r.number_of_times_noexcept_is_faster = max_number_of_times
    THEN [verdict |-> {"noexcept_faster"},
          ratio_noexcept_implicit |-> NoValue,
          ratio_implicit_noexcept |->
              divide_by_positive(r.sum_of_durations_noexcept, r.sum_of_durations_implicit)]
    ELSE IF r.number_of_times_implicit_is_faster = max_number_of_times
    THEN [verdict |-> {"implicit_faster"},
          ratio_noexcept_implicit |->
              divide_by_positive(r.sum_of_durations_implicit, r.sum_of_durations_noexcept),
          ratio_implicit_noexcept |-> NoValue]
    ELSE [verdict |-> {"inconclusive"},
          ratio_noexcept_implicit |-> NoValue,
          ratio_implicit_noexcept |-> NoValue]

\* print_conclusion declaring a variant faster only when the sum it divides by
\* is positive
print_conclusion_positive_only(r) ==
    IF /\ r.number_of_times_noexcept_is_faster = max_number_of_times
       /\ IsPositive(r.sum_of_durations_noexcept)
    THEN [verdict |-> {"noexcept_faster"},
          ratio_noexcept_implicit |-> NoValue,
          ratio_implicit_noexcept |->
              divide_by_positive(r.sum_of_durations_implicit, r.sum_of_durations_noexcept)]
    ELSE IF /\ r.number_of_times_implicit_is_faster = max_number_of_times
            /\ IsPositive(r.sum_of_durations_implicit)
    THEN [verdict |-> {"implicit_faster"},
          ratio_noexcept_implicit |->
              divide_by_positive(r.sum_of_durations_noexcept, r.sum_of_durations_implicit),
          ratio_implicit_noexcept |-> NoValue]
    ELSE [verdict |-> {"inconclusive"},
          ratio_noexcept_implicit |-> NoValue,
          ratio_implicit_noexcept |-> NoValue]

\* print_conclusion of noexcept_benchmark_main.cpp: one sentence, the ratio in it
print_conclusion(r) ==
    IF r.number_of_times_noexcept_is_faster = max_number_of_times
    THEN [verdict |-> {"noexcept_faster"},
          ratio_noexcept_implicit |-> NoValue,
          ratio_implicit_noexcept |->
              divide_by_positive(r.sum_of_durations_implicit, r.sum_of_durations_noexcept)]
    ELSE IF r.number_of_times_implicit_is_faster = max_number_of_times
    THEN [verdict |-> {"implicit_faster"},
          ratio_noexcept_implicit |->
              divide_by_positive(r.sum_of_durations_noexcept, r.sum_of_durations_implicit),
          ratio_implicit_noexcept |-> NoValue]
    ELSE [verdict |-> {"inconclusive"},
          ratio_noexcept_implicit |-> NoValue,
          ratio_implicit_noexcept |-> NoValue]

\* test_result<N>::~test_result of part_000: both ratios, then each of the three
\* sentences whose condition holds
destructor_summary(r) ==
    [verdict |->
        (IF r.number_of_times_implicit_is_faster = 0 THEN {"noexcept_faster"} ELSE {})
        \cup
        (IF r.number_of_times_noexcept_is_faster = 0 THEN {"implicit_faster"} ELSE {})
        \cup
        (IF r.number_of_times_noexcept_is_faster > 0
            /\ r.number_of_times_implicit_is_faster > 0
         THEN {"inconclusive"} ELSE {}),
     ratio_noexcept_implicit |->
        divide_by_positive(r.sum_of_durations_noexcept, r.sum_of_durations_implicit),
     ratio_implicit_noexcept |->
        divide_by_positive(r.sum_of_durations_implicit, r.sum_of_durations_noexcept)]

\* the noexcept measurement is stored in the trial's pair: make_pair's first
\* argument / func1 in main_cpp, durations.duration_noexcept in part_000
StoreNoexcept(d, v) == [d EXCEPT !.duration_noexcept = v]

\* the implicit measurement is stored in the trial's pair: make_pair's second
\* argument / func2 in main_cpp, durations.duration_implicit in part_000
StoreImplicit(d, v) == [d EXCEPT !.duration_implicit = v]

\* the summary the running revision prints for r
Conclusion(p, r) == IF p = "main_cpp" THEN print_conclusion(r) ELSE destructor_summary(r)

\* the loop condition with <= for <
LoopCondition_inclusive(p, i) == i <= TrialLimit(p)

\* the condition of the trial loop
LoopCondition(p, i) == i < TrialLimit(p)

Init ==
    /\ program \in Programs
    /\ pc = "begin_scope"
    /\ tc = 1
    /\ iteration = 0
    /\ durations = NoDurations
    /\ returned = NoDurations
    /\ result = NoResult
    /\ header_count = [c \in 1 .. MaxCases |-> 0]
    /\ summary_count = [c \in 1 .. MaxCases |-> 0]
    /\ summary = NoSummary
    /\ update_calls = [c \in 1 .. MaxCases |-> 0]
    /\ measure_calls = [c \in 1 .. MaxCases |-> [noexcept |-> 0, implicit |-> 0]]
    /\ div_pc = "idle"
    /\ div_x = NoValue
    /\ div_y = NoValue
    /\ div_r = NoValue
    /\ rec_pc = "idle"
    /\ rec_fn = "none"
    /\ rec_variant = "none"
    /\ rec_N = 0
    /\ rec_n = 0
    /\ rec_depth = 0
    /\ rec_frames = 0
    /\ rec_constructed = 0
    /\ rec_destroyed = 0

\* entry of a test-case block: the test_result is constructed and the header
\* printed (by the constructor in part_000, by main() in main_cpp); the loop
\* variable starts at 0
Construct ==
    /\ pc = "begin_scope"
    /\ result' = InitialResult
    /\ header_count' = [header_count EXCEPT ![tc] = @ + 1]
    /\ iteration' = 0
    /\ pc' = "loop_test"
    /\ UNCHANGED <<program, tc, durations, returned, summary_count, summary,
                   update_calls, measure_calls, divVars, recVars>>

\* the loop condition holds: the body starts with a fresh pair of durations
LoopEnter ==
    /\ pc = "loop_test"
    /\ LoopCondition(program, iteration)
    /\ durations' = NoDurations
    /\ returned' = NoDurations
    /\ pc' = "measure"
    /\ UNCHANGED <<program, tc, iteration, result, header_count, summary_count,
                   summary, update_calls, measure_calls, divVars, recVars>>

\* the measurement of the noexcept variant returns v.  In part_000 it is the
\* first statement of the body; in main_cpp the two measurements are arguments
\* of one make_pair call and are evaluated in either order.
MeasureNoexcept ==
    /\ pc = "measure"
    /\ returned.duration_noexcept = NoValue
    /\ \E v \in Durations :
        /\ durations' = StoreNoexcept(durations, v)
        /\ returned' = [returned EXCEPT !.duration_noexcept = v]
    /\ measure_calls' = [measure_calls EXCEPT ![tc].noexcept = @ + 1]
    /\ UNCHANGED <<program, pc, tc, iteration, result, header_count, summary_count,
                   summary, update_calls, divVars, recVars>>

\* the measurement of the implicit variant returns v
MeasureImplicit ==
    /\ pc = "measure"
    /\ returned.duration_implicit = NoValue
    /\ program = "part_000" => returned.duration_noexcept # NoValue
    /\ \E v \in Durations :
        /\ durations' = StoreImplicit(durations, v)
        /\ returned' = [returned EXCEPT !.duration_implicit = v]
    /\ measure_calls' = [measure_calls EXCEPT ![tc].implicit = @ + 1]
    /\ UNCHANGED <<program, pc, tc, iteration, result, header_count, summary_count,
                   summary, update_calls, divVars, recVars>>

\* the loop body with the conclusion printed inside the loop, after the update
RecordTrial_prints_conclusion ==
    /\ pc = "measure"
    /\ returned.duration_noexcept # NoValue
    /\ returned.duration_implicit # NoValue
    /\ result' = IF program = "main_cpp"
                 THEN update_test_result_main_cpp(result, durations)
                 ELSE update_test_result(result, durations)
    /\ update_calls' = [update_calls EXCEPT ![tc] = @ + 1]
    /\ summary' = Conclusion(program, result')
    /\ summary_count' = [summary_count EXCEPT ![tc] = @ + 1]
    /\ durations' = NoDurations
    /\ returned' = NoDurations
    /\ iteration' = iteration + 1
    /\ pc' = "loop_test"
    /\ UNCHANGED <<program, tc, header_count, measure_calls, divVars, recVars>>

\* the rest of the loop body, once both measurements have returned: the
\* durations are printed and recorded, the pair goes out of scope and the loop
\* variable is incremented
RecordTrial ==
    /\ pc = "measure"
    /\ returned.duration_noexcept # NoValue
    /\ returned.duration_implicit # NoValue
    /\ result' = IF program = "main_cpp"
                 THEN update_test_result_main_cpp(result, durations)
                 ELSE update_test_result(result, durations)
    /\ update_calls' = [update_calls EXCEPT ![tc] = @ + 1]
    /\ durations' = NoDurations
    /\ returned' = NoDurations
    /\ iteration' = iteration + 1
    /\ pc' = "loop_test"
    /\ UNCHANGED <<program, tc, header_count, summary_count, summary, measure_calls,
                   divVars, recVars>>

\* the loop condition fails: print_conclusion(result) is called (main_cpp), or
\* the block ends and the destructor of result runs (part_000)
Finalize ==
    /\ pc = "loop_test"
    /\ ~LoopCondition(program, iteration)
    /\ summary' = Conclusion(program, result)
    /\ summary_count' = [summary_count EXCEPT ![tc] = @ + 1]
    /\ pc' = "end_of_scope"
    /\ UNCHANGED <<program, tc, iteration, durations, returned, result, header_count,
                   update_calls, measure_calls, divVars, recVars>>

\* the block is left: the next block follows, or main() returns 0
LeaveScope ==
    /\ pc = "end_of_scope"
    /\ result' = NoResult
    /\ durations' = NoDurations
    /\ returned' = NoDurations
    /\ iteration' = 0
    /\ summary' = NoSummary
    /\ IF tc < NumCases(program)
       THEN tc' = tc + 1 /\ pc' = "begin_scope"
       ELSE tc' = tc /\ pc' = "done"
    /\ UNCHANGED <<program, header_count, summary_count, update_calls,
                   measure_calls, divVars, recVars>>

\* a measurement call exits with an exception (none of test_inline_func,
\* test_vector_reserve, the implicit dummy_class constructor and profile_func_call
\* is noexcept).  main() has no handler, so std::terminate is called; whether
\* the stack is unwound first is implementation-defined.  Unwinding runs the
\* destructor of result, which prints the summary in part_000 and nothing in
\* main_cpp; print_conclusion is never reached.
Throw ==
    /\ pc = "measure"
    /\ \E unwinds \in BOOLEAN :
        IF unwinds /\ program = "part_000"
        THEN /\ summary' = destructor_summary(result)
             /\ summary_count' = [summary_count EXCEPT ![tc] = @ + 1]
        ELSE UNCHANGED <<summary, summary_count>>
    /\ pc' = "terminated"
    /\ UNCHANGED <<program, tc, iteration, durations, returned, result, header_count,
                   update_calls, measure_calls, divVars, recVars>>

Next ==
    \/ Construct
    \/ LoopEnter
    \/ MeasureNoexcept
    \/ MeasureImplicit
    \/ RecordTrial
    \/ Finalize
    \/ LeaveScope
    \/ Throw

Spec == Init /\ [][Next]_vars

\* the runs in which no measurement raises an exception
NextNormal ==
    \/ Construct
    \/ LoopEnter
    \/ MeasureNoexcept
    \/ MeasureImplicit
    \/ RecordTrial
    \/ Finalize
    \/ LeaveScope

SpecNormal == Init /\ [][NextNormal]_vars

(***************************************************************************)
(* divide_by_positive on its own: one call with arguments drawn from       *)
(* doubles over the whole exponent range.                                  *)
(***************************************************************************)

\* significands of the arguments are 0 .. MaxSignificand
MaxSignificand == 3

\* exponents of the arguments: denorm_min, around 2^-50 (where x / denorm_min
\* starts to overflow), around 1, and the largest exponent
DivExponents == {DenormMinExp, -60, -52, -51, -50, -49, 0, 2, 10, 971}

\* finite x >= 0
DivNumerators == {Dbl(m, e) : m \in 0 .. MaxSignificand, e \in DivExponents}

\* finite y of either sign
DivDenominators ==
    {Dbl(m, e) : m \in (0 - MaxSignificand) .. MaxSignificand, e \in {DenormMinExp, 0, 971}}

InitDiv ==
    /\ program = "part_000"
    /\ pc = "begin_scope"
    /\ tc = 1
    /\ iteration = 0
    /\ durations = NoDurations
    /\ returned = NoDurations
    /\ result = NoResult
    /\ header_count = [c \in 1 .. MaxCases |-> 0]
    /\ summary_count = [c \in 1 .. MaxCases |-> 0]
    /\ summary = NoSummary
    /\ update_calls = [c \in 1 .. MaxCases |-> 0]
    /\ measure_calls = [c \in 1 .. MaxCases |-> [noexcept |-> 0, implicit |-> 0]]
    /\ div_pc = "call"
    /\ div_x \in DivNumerators
    /\ div_y \in DivDenominators
    /\ div_r = NoValue
    /\ rec_pc = "idle"
    /\ rec_fn = "none"
    /\ rec_variant = "none"
    /\ rec_N = 0
    /\ rec_n = 0
    /\ rec_depth = 0
    /\ rec_frames = 0
    /\ rec_constructed = 0
    /\ rec_destroyed = 0

\* the call returns
DivideCall ==
    /\ div_pc = "call"
    /\ div_r' = divide_by_positive(div_x, div_y)
    /\ div_pc' = "returned"
    /\ UNCHANGED <<driverVars, div_x, div_y, recVars>>

NextDiv == DivideCall

SpecDiv == InitDiv /\ [][NextDiv]_vars

(***************************************************************************)
(* recursive_func on its own: one call of the recursive workload with a    *)
(* depth drawn from the values of its unsigned short parameter.            *)
(***************************************************************************)

\* unsigned short has UShortBits bits
UShortBits == 16

UShortMod == 2 ^ UShortBits

\* the small depths tried, besides the largest unsigned short
MaxDepth == 3

Depths == (0 .. MaxDepth) \cup {UShortMod - 1}

\* --number_of_func_calls on an unsigned short
PreDecrement(n) == (n + UShortMod - 1) % UShortMod

\* the frame constructs its dummy before the test (recursive_func<T> of
\* main_cpp), or only inside the if (recursive_func of part_000)
DummyBeforeTest(fn) == fn = "main_cpp"

InitRec ==
    /\ program = "part_000"
    /\ pc = "begin_scope"
    /\ tc = 1
    /\ iteration = 0
    /\ durations = NoDurations
    /\ returned = NoDurations
    /\ result = NoResult
    /\ header_count = [c \in 1 .. MaxCases |-> 0]
    /\ summary_count = [c \in 1 .. MaxCases |-> 0]
    /\ summary = NoSummary
    /\ update_calls = [c \in 1 .. MaxCases |-> 0]
    /\ measure_calls = [c \in 1 .. MaxCases |-> [noexcept |-> 0, implicit |-> 0]]
    /\ div_pc = "idle"
    /\ div_x = NoValue
    /\ div_y = NoValue
    /\ div_r = NoValue
    /\ rec_pc = "call"
    /\ rec_fn \in Programs
    /\ rec_variant \in {"noexcept", "implicit"}
    /\ rec_N \in Depths
    /\ rec_n = rec_N
    /\ rec_depth = 0
    /\ rec_frames = 0
    /\ rec_constructed = 0
    /\ rec_destroyed = 0

\* recursive_func is entered with rec_n: the parameter is decremented and
\* tested; while it is above 0 the frame holds a dummy and calls itself
RecursiveCall ==
    /\ rec_pc = "call"
    /\ rec_frames' = rec_frames + 1
    /\ rec_depth' = rec_depth + 1
    /\ rec_n' = PreDecrement(rec_n)
    /\ rec_constructed' =
           IF DummyBeforeTest(rec_fn) \/ rec_n' > 0
           THEN rec_constructed + 1 ELSE rec_constructed
    /\ rec_pc' = IF rec_n' > 0 THEN "call" ELSE "return"
    /\ UNCHANGED <<driverVars, divVars, rec_fn, rec_variant, rec_N, rec_destroyed>>

\* the innermost live frame returns; its dummy, if it has one, is destroyed
\* (every frame but the last one entered has one in part_000)
RecursiveReturn ==
    /\ rec_pc = "return"
    /\ rec_destroyed' =
           IF DummyBeforeTest(rec_fn) \/ rec_depth < rec_frames
           THEN rec_destroyed + 1 ELSE rec_destroyed
    /\ rec_depth' = rec_depth - 1
    /\ rec_pc' = IF rec_depth' = 0 THEN "done" ELSE "return"
    /\ UNCHANGED <<driverVars, divVars, rec_fn, rec_variant, rec_N, rec_n, rec_frames,
                   rec_constructed>>

NextRec ==
    \/ RecursiveCall
    \/ RecursiveReturn

SpecRec == InitRec /\ [][NextRec]_vars


(***************************************************************************)
(* Properties.                                                             *)
(***************************************************************************)

\* the integer an exact double with a non-negative exponent stands for (every
\* duration and every sum of durations of the driver is one)
Val(a) == a.n * (2 ^ a.e)

\* the finite double q is the quotient num / den of two integers, den > 0
RatioIs(q, num, den) ==
    /\ q.cls = "fin"
    /\ IF q.e >= 0
       THEN q.n * (2 ^ q.e) * den = q.d * num
       ELSE q.n * den = q.d * num * (2 ^ (0 - q.e))

\* a test_result object is alive
Alive == pc \in {"loop_test", "measure", "end_of_scope", "terminated"}

\* the summary of the current test case has been printed and its test_result
\* still holds what was summarised
AtSummary == pc \in {"end_of_scope", "terminated"} /\ summary_count[tc] > 0

\* trials recorded into the current test case
TrialsRun == update_calls[tc]

NoexceptWins == result.number_of_times_noexcept_is_faster

ImplicitWins == result.number_of_times_implicit_is_faster

\* C1: while a test_result is alive, its two "faster" counters add up to at
\* most the total number of trials (the loop counter), and that total equals
\* the number of update_test_result calls made on it.
C1_CountsWithinTrials ==
    Alive =>
        /\ NoexceptWins + ImplicitWins <= iteration
        /\ iteration = update_calls[tc]

\* C1 witness: all ten trials of a part_000 test case are recorded, each
\* variant has won at least once and at least one trial was a tie.
C1_Witness ==
    /\ program = "part_000"
    /\ pc = "loop_test"
    /\ update_calls[tc] = number_of_iterations
    /\ NoexceptWins >= 1
    /\ ImplicitWins >= 1
    /\ NoexceptWins + ImplicitWins < update_calls[tc]

\* C2: one update_test_result call adds one to the noexcept counter exactly
\* when the noexcept duration is below the implicit one, adds one to the
\* implicit counter exactly when the implicit duration is below the noexcept
\* one, leaves both alone on a tie, and never changes both.
C2_OneCallOneCounter ==
    [][update_calls'[tc] # update_calls[tc] =>
        LET dn == Val(durations.duration_noexcept)
            di == Val(durations.duration_implicit)
        IN /\ result'.number_of_times_noexcept_is_faster =
                  NoexceptWins + (IF dn < di THEN 1 ELSE 0)
           /\ result'.number_of_times_implicit_is_faster =
                  ImplicitWins + (IF di < dn THEN 1 ELSE 0)
           /\ ~(/\ result'.number_of_times_noexcept_is_faster # NoexceptWins
                /\ result'.number_of_times_implicit_is_faster # ImplicitWins)]_vars

\* C2 witness: three calls were made, one won by each variant and one tie.
C2_Witness ==
    /\ pc = "loop_test"
    /\ update_calls[tc] = 3
    /\ NoexceptWins = 1
    /\ ImplicitWins = 1

\* C3: at the summary, if the noexcept counter equals the number of trials run
\* the verdict declares noexcept faster (and nothing else once a trial was
\* run) and, the sum of noexcept durations being positive, the ratio printed
\* for it is sum of implicit durations / sum of noexcept durations; the same
\* with the variants exchanged.
C3_AllWinsVerdict ==
    AtSummary =>
        LET sn == result.sum_of_durations_noexcept
            si == result.sum_of_durations_implicit
        IN /\ NoexceptWins = TrialsRun =>
                /\ "noexcept_faster" \in summary.verdict
                /\ TrialsRun > 0 => summary.verdict = {"noexcept_faster"}
                /\ Val(sn) > 0 =>
                       RatioIs(summary.ratio_implicit_noexcept, Val(si), Val(sn))
           /\ ImplicitWins = TrialsRun =>
                /\ "implicit_faster" \in summary.verdict
                /\ TrialsRun > 0 => summary.verdict = {"implicit_faster"}
                /\ Val(si) > 0 =>
                       RatioIs(summary.ratio_noexcept_implicit, Val(sn), Val(si))

\* C3 witness: main_cpp ran its four trials, noexcept won all of them with
\* sums 3 and 7, and the verdict is printed with ratio 7/3.
C3_Witness ==
    /\ program = "main_cpp"
    /\ pc = "end_of_scope"
    /\ NoexceptWins = max_number_of_times
    /\ Val(result.sum_of_durations_noexcept) = 3
    /\ Val(result.sum_of_durations_implicit) = 7
    /\ summary.verdict = {"noexcept_faster"}
    /\ summary.ratio_implicit_noexcept = Canon(7, 3, 0)

\* C4 (as claimed): at the summary, when neither counter equals the number of
\* trials run, the verdict is "inconclusive" and no variant is declared faster.
C4_Claim ==
    AtSummary /\ NoexceptWins # TrialsRun /\ ImplicitWins # TrialsRun =>
        summary.verdict = {"inconclusive"}

\* C5 (as claimed): every summary carries exactly one verdict.
C5_Claim ==
    AtSummary => Cardinality(summary.verdict) = 1

C7_Claim ==
    div_pc = "returned" =>
        IF IsPositive(div_y)
        THEN div_r = DDiv(div_x, div_y)
        ELSE /\ div_r = DDiv(div_x, DenormMin)
             /\ IsFinite(div_r)
             /\ IsPositive(div_x) => IsPositive(div_r)

\* the test cases whose block main() has entered
EnteredCases == {c \in 1 .. NumCases(program) : c < tc \/ (c = tc /\ pc # "begin_scope")}

\* the test cases whose block main() has left
LeftCases == {c \in 1 .. NumCases(program) : c < tc \/ pc = "done"}

\* C8: every test case prints its header once, before any measurement or
\* trial of it; records one trial per loop iteration; is summarised at most
\* once, and exactly once by the time its block is left; and after its summary
\* no trial is measured or recorded into it.
C8_Lifecycle ==
    /\ [](\A c \in 1 .. MaxCases :
            /\ header_count[c] = (IF c \in EnteredCases THEN 1 ELSE 0)
            /\ (update_calls[c] > 0 \/ measure_calls[c].noexcept > 0
                    \/ measure_calls[c].implicit > 0 \/ summary_count[c] > 0)
                   => header_count[c] = 1
            /\ summary_count[c] <= 1
            /\ c \in LeftCases \/ (c = tc /\ pc = "end_of_scope") => summary_count[c] = 1
            /\ (c = tc /\ Alive) => update_calls[c] = iteration)
    /\ [][\A c \in 1 .. MaxCases :
            /\ summary_count[c] > 0 =>
                   /\ update_calls'[c] = update_calls[c]
                   /\ measure_calls'[c] = measure_calls[c]
                   /\ summary_count'[c] = summary_count[c]
            /\ update_calls'[c] # update_calls[c] =>
                   /\ c = tc
                   /\ update_calls'[c] = update_calls[c] + 1
                   /\ iteration' = iteration + 1]_vars

\* C8 witness: the first test case is summarised and left, and the second has
\* printed its header and is recording trials.
C8_Witness ==
    /\ tc = 2
    /\ pc = "measure"
    /\ summary_count[1] = 1
    /\ header_count[2] = 1
    /\ summary_count[2] = 0
    /\ update_calls[2] = 2

\* C9 (as claimed): when the trial loop of a test case is left early by an
\* error, the summary of that test case has been printed exactly once.
C9_Claim ==
    pc = "terminated" => summary_count[tc] = 1

\* C10: in a run that completes normally every test case has recorded exactly
\* the configured number of trials; each trial measures each variant once, so
\* the measurements of a variant are the trials recorded plus the one in
\* flight; the pair of a trial holds what the noexcept and the implicit
\* measurement returned, in that order, and these are what is added to the
\* noexcept and the implicit sum.
C10_TrialsAndMeasurements ==
    /\ [](/\ pc = "done" =>
               \A c \in 1 .. NumCases(program) :
                   /\ update_calls[c] = TrialLimit(program)
                   /\ measure_calls[c].noexcept = TrialLimit(program)
                   /\ measure_calls[c].implicit = TrialLimit(program)
          /\ durations = returned
          /\ Alive =>
               /\ measure_calls[tc].noexcept = update_calls[tc] +
                      (IF returned.duration_noexcept # NoValue THEN 1 ELSE 0)
               /\ measure_calls[tc].implicit = update_calls[tc] +
                      (IF returned.duration_implicit # NoValue THEN 1 ELSE 0))
    /\ [][update_calls' # update_calls =>
            /\ returned.duration_noexcept # NoValue
            /\ returned.duration_implicit # NoValue
            /\ Val(result'.sum_of_durations_noexcept) =
                   Val(result.sum_of_durations_noexcept) + Val(returned.duration_noexcept)
            /\ Val(result'.sum_of_durations_implicit) =
                   Val(result.sum_of_durations_implicit) + Val(returned.duration_implicit)]_vars

\* C10 witness: part_000 has returned from main() with ten trials recorded
\* into its last test case.
C10_Witness ==
    /\ program = "part_000"
    /\ pc = "done"
    /\ update_calls[NumCases(program)] = number_of_iterations
    /\ measure_calls[NumCases(program)].noexcept = number_of_iterations
    /\ measure_calls[NumCases(program)].implicit = number_of_iterations

\* C11 (as claimed): a call of recursive_func with depth N never has entered
\* more than N frames, and when it has returned it has entered exactly N
\* frames and constructed and destroyed exactly N dummy objects.
C11_Claim ==
    rec_pc # "idle" =>
        /\ rec_frames <= rec_N
        /\ rec_pc = "done" =>
               /\ rec_frames = rec_N
               /\ rec_constructed = rec_N
               /\ rec_destroyed = rec_N

\* C12: the two sums are zero before the first trial of a test case, and each
\* update_test_result call adds the noexcept duration of its argument to the
\* noexcept sum and the implicit duration to the implicit sum, so each sum is
\* the sum of the durations recorded for its variant; in particular it lies
\* between zero and the number of calls times the longest duration.
C12_RunningSums ==
    /\ [](Alive =>
            LET sn == Val(result.sum_of_durations_noexcept)
                si == Val(result.sum_of_durations_implicit)
            IN /\ update_calls[tc] = 0 => sn = 0 /\ si = 0
               /\ 0 <= sn /\ sn <= update_calls[tc] * MaxDuration
               /\ 0 <= si /\ si <= update_calls[tc] * MaxDuration)
    /\ [][update_calls'[tc] # update_calls[tc] =>
            /\ Val(result'.sum_of_durations_noexcept) =
                   Val(result.sum_of_durations_noexcept) + Val(durations.duration_noexcept)
            /\ Val(result'.sum_of_durations_implicit) =
                   Val(result.sum_of_durations_implicit) + Val(durations.duration_implicit)]_vars

\* C12 witness: three trials are recorded and the sums differ: 1 for the
\* noexcept variant, 5 for the implicit one.
C12_Witness ==
    /\ pc = "loop_test"
    /\ update_calls[tc] = 3
    /\ Val(result.sum_of_durations_noexcept) = 1
    /\ Val(result.sum_of_durations_implicit) = 5

\* a <= b for non-negative exact doubles and +infinity, by their integers
LeqVal(a, b) ==
    \/ b.cls = "inf"
    \/ a.cls = "fin" /\ b.cls = "fin" /\ Val(a) <= Val(b)

\* s is the smaller of the earlier shortest duration old and the duration v
IsMinOf(s, old, v) ==
    /\ s \in {old, v}
    /\ LeqVal(s, old)
    /\ LeqVal(s, v)

\* C13: in part_000 (the revision that tracks shortest durations) each
\* shortest duration is +infinity before the first trial; every
\* update_test_result call makes it the smaller of its earlier value and the
\* duration recorded, so it never increases, is never above the duration just
\* recorded and is the minimum of the durations recorded; after a trial it is
\* a duration that was measured, and the number of trials times it is at most
\* the variant's sum.
C13_ShortestDurations ==
    /\ [](program = "part_000" /\ Alive =>
            LET shn == result.shortest_duration_noexcept
                shi == result.shortest_duration_implicit
            IN IF update_calls[tc] = 0
               THEN shn = PosInf /\ shi = PosInf
               ELSE /\ shn \in Durations
                    /\ shi \in Durations
                    /\ update_calls[tc] * Val(shn) <= Val(result.sum_of_durations_noexcept)
                    /\ update_calls[tc] * Val(shi) <= Val(result.sum_of_durations_implicit))
    /\ [][program = "part_000" /\ update_calls'[tc] # update_calls[tc] =>
            /\ IsMinOf(result'.shortest_duration_noexcept,
                       result.shortest_duration_noexcept, durations.duration_noexcept)
            /\ IsMinOf(result'.shortest_duration_implicit,
                       result.shortest_duration_implicit, durations.duration_implicit)]_vars

\* C13 witness: part_000 has recorded three trials; the shortest noexcept
\* duration is 1 although a longer one was recorded (the sum is 4), and the
\* shortest implicit duration is 0.
C13_Witness ==
    /\ program = "part_000"
    /\ pc = "loop_test"
    /\ update_calls[tc] = 3
    /\ result.shortest_duration_noexcept = Dbl(1, 0)
    /\ Val(result.sum_of_durations_noexcept) = 4
    /\ result.shortest_duration_implicit = Zero

====
